---- MODULE Spec2Model ----
(***************************************************************************)
(* Format adaptation and domain-model construction of the STTM difference  *)
(* report parser: the adapter factory (selection and registration of       *)
(* format adapters), the adapters' validation and extraction of a JSON     *)
(* report, and the converter from raw tab data to STTMDocument.            *)
(*                                                                         *)
(* Python values are modelled as follows.                                  *)
(*   Optional[T]   None, or Some(v)                                        *)
(*   list          a sequence                                              *)
(*   dict          a function from its keys (JSON objects, lookup tables), *)
(*                 or a sequence of <<key, value>> pairs where the code    *)
(*                 relies on insertion order (value maps of a mapping)     *)
(*   Enum member   the member's name; its .value through a table           *)
(*   object        a record of its fields; an STTMTab also carries oid,    *)
(*                 the identity of the object (two tabs built from equal   *)
(*                 raw tabs are equal in value and still two objects)      *)
(***************************************************************************)
EXTENDS Integers, Sequences, FiniteSets, TLC

VARIABLES
    raw_tabs,     \* argument of STTMDataConverter.convert_to_document
    document,     \* the STTMDocument it builds and returns
    pc,           \* "idle" | "start" (call pending) | "done" (call returned)
    _adapters,    \* STTMFormatAdapterFactory._adapters
    registered,   \* history: arguments of register_adapter, in call order
    json_data,    \* argument of the last get_adapter call (None before any)
    adapter,      \* value returned by the last get_adapter call
    log,          \* records emitted on the factory's logger
    input,        \* the parsed JSON value handed to the adapters
    valid,        \* outcome of validate_format(input) for each built-in adapter
    summary       \* value returned by document.get_summary()

vars ==
    <<raw_tabs, document, pc, _adapters, registered, json_data, adapter, log,
      input, valid, summary>>

convVars == <<raw_tabs, document, pc>>

factoryVars == <<_adapters, registered, json_data, adapter, log>>

pipeVars == <<input, valid, summary>>

----------------------------------------------------------------------------
(* Bounds of the model *)

\* longest raw tab sequence given to convert_to_document
MaxTabs == 2

\* longest raw mapping list of a raw tab
MaxMaps == 1

\* longest adapter list (two built-in adapters plus registered ones)
MaxAdapters == 4

\* most records on the factory's logger, that is most get_adapter calls
MaxLog == 2

----------------------------------------------------------------------------
(* Python helpers *)

None == [tag |-> "None"]

Some(v) == [tag |-> "Some", v |-> v]

\* outcome of a call: a returned value or a raised exception
Returned(v) == [raised |-> FALSE, value |-> v]

Raised(e) == [raised |-> TRUE, error |-> e]

\* truth value of an Optional list or dict: None and the empty one are falsy
Truthy(o) == o.tag = "Some" /\ Len(o.v) > 0

\* dict.get(key, default)
DictGet(d, key, default) == IF key \in DOMAIN d THEN d[key] ELSE default

\* JSON values as json.load gives them, which are the Python values the code
\* handles.  Where the code tells the types apart a value carries its type;
\* the dicts it only reads with .get (the report, a tab record, a mapping
\* record) are bare functions, and the texts it only passes on (tab_name,
\* change_type) bare strings.
JNull == [type |-> "null"]

JNumber(n) == [type |-> "number", n |-> n]

JStr(s) == [type |-> "str", s |-> s]

JList(items) == [type |-> "list", items |-> items]

JDict(d) == [type |-> "dict", d |-> d]

\* bool(value)
PyTruthy(value) ==
    CASE value.type = "null" -> FALSE
      [] value.type = "number" -> value.n # 0
      [] value.type = "str" -> value.s # ""
      [] value.type = "list" -> value.items # <<>>
      [] value.type = "dict" -> DOMAIN value.d # {}

\* str(value), for the scalar values
PyStr(value) ==
    CASE value.type = "null" -> "None"
      [] value.type = "number" -> ToString(value.n)
      [] value.type = "str" -> value.s

\* a value as an Optional[str] field holds it
PyOptional(value) ==
    CASE value.type = "null" -> None
      [] value.type = "str" -> Some(value.s)
      [] OTHER -> Some(value)

\* an insertion-ordered dict is a sequence of <<key, value>> pairs
OKeys(od) == [i \in DOMAIN od |-> od[i][1]]

OHas(od, key) == \E i \in DOMAIN od : od[i][1] = key

OGet(od, key) == od[CHOOSE i \in DOMAIN od : od[i][1] = key][2]

RECURSIVE SumSeq(_)
\* sum(...) over a sequence of integers
SumSeq(s) == IF s = <<>> THEN 0 ELSE Head(s) + SumSeq(Tail(s))

----------------------------------------------------------------------------
(* models/sttm_models.py *)

\* ChangeType: member name -> value
ChangeType == ("ADDED" :> "added") @@ ("DELETED" :> "deleted") @@ ("MODIFIED" :> "modified")

\* TabChangeCategory: member name -> value
TabChangeCategory ==
    ("MIXED" :> "mixed") @@ ("MODIFICATIONS_ONLY" :> "modifications_only") @@
    ("ADDITIONS_ONLY" :> "additions_only") @@ ("DELETIONS_ONLY" :> "deletions_only") @@
    ("UNCHANGED" :> "unchanged")

\* STTMMapping(source_field, target_field, canonical_name, sample_data, change_type)
STTMMapping(source_field, target_field, canonical_name, sample_data, change_type) ==
    [source_field |-> source_field, target_field |-> target_field,
     canonical_name |-> canonical_name, sample_data |-> sample_data,
     change_type |-> change_type,
     modified_fields |-> <<>>, original_values |-> <<>>, new_values |-> <<>>]

\* STTMTab(name=..., change_category=...)
STTMTab(name, change_category) ==
    [name |-> name, change_category |-> change_category,
     all_mappings |-> <<>>, added_mappings |-> <<>>, deleted_mappings |-> <<>>,
     modified_mappings |-> <<>>, unchanged_mappings |-> <<>>]

\* STTMDocument()
STTMDocument ==
    [changed_tabs |-> <<>>, unchanged_tabs |-> <<>>,
     total_tabs |-> 0, total_mappings |-> 0, total_changes |-> 0]

\* STTMTab.get_total_changes
get_total_changes(tab) ==
    Len(tab.added_mappings) + Len(tab.deleted_mappings) + Len(tab.modified_mappings)

\* STTMDocument.get_all_tabs
get_all_tabs(doc) == doc.changed_tabs \o doc.unchanged_tabs

----------------------------------------------------------------------------
(* parsers/sttm_format_adapter.py: raw extraction types *)

RawMappingData(source_field, target_field, canonical_name, sample_data, change_type, original_values, new_values, modified_fields) ==
    [source_field |-> source_field, target_field |-> target_field,
     canonical_name |-> canonical_name, sample_data |-> sample_data,
     change_type |-> change_type, original_values |-> original_values,
     new_values |-> new_values, modified_fields |-> modified_fields]

RawTabData(name, change_type, added, deleted, modified, unchanged) ==
    [name |-> name, change_type |-> change_type,
     source_system |-> None, target_system |-> None,
     added_mappings |-> added, deleted_mappings |-> deleted,
     modified_mappings |-> modified, unchanged_mappings |-> unchanged]

----------------------------------------------------------------------------
(* parsers/sttm_format_adapter.py: STTMDataConverter *)

\* the lookup table of _convert_to_tab
change_category_map ==
    ("mixed" :> "MIXED") @@ ("modifications_only" :> "MODIFICATIONS_ONLY") @@
    ("additions_only" :> "ADDITIONS_ONLY") @@ ("deletions_only" :> "DELETIONS_ONLY") @@
    ("unchanged" :> "UNCHANGED")

\* the mutation of C17: the diff data of the raw record are carried over
_convert_to_mapping_with_diff(raw_mapping, change_type) ==
    [STTMMapping(raw_mapping.source_field, raw_mapping.target_field,
                 raw_mapping.canonical_name, raw_mapping.sample_data, change_type)
       EXCEPT
         !.modified_fields = IF Truthy(raw_mapping.modified_fields)
                             THEN raw_mapping.modified_fields.v ELSE @,
         !.original_values = IF Truthy(raw_mapping.original_values)
                             THEN raw_mapping.original_values.v ELSE @,
         !.new_values = IF Truthy(raw_mapping.new_values)
                        THEN raw_mapping.new_values.v ELSE @]

_convert_to_mapping(raw_mapping, change_type) ==
    STTMMapping(raw_mapping.source_field, raw_mapping.target_field,
                raw_mapping.canonical_name, raw_mapping.sample_data, change_type)

\* the mutation of C18: the original values are not carried over
_convert_to_modified_mapping_without_original(raw_mapping) ==
    LET mapping == STTMMapping(raw_mapping.source_field, raw_mapping.target_field,
                               raw_mapping.canonical_name, raw_mapping.sample_data,
                               "MODIFIED")
    IN  [mapping EXCEPT
           !.modified_fields = IF Truthy(raw_mapping.modified_fields)
                               THEN raw_mapping.modified_fields.v ELSE @,
           !.new_values = IF Truthy(raw_mapping.new_values)
                          THEN raw_mapping.new_values.v ELSE @]

_convert_to_modified_mapping(raw_mapping) ==
    LET mapping == STTMMapping(raw_mapping.source_field, raw_mapping.target_field,
                               raw_mapping.canonical_name, raw_mapping.sample_data,
                               "MODIFIED")
    IN  [mapping EXCEPT
           !.modified_fields = IF Truthy(raw_mapping.modified_fields)
                               THEN raw_mapping.modified_fields.v ELSE @,
           !.original_values = IF Truthy(raw_mapping.original_values)
                               THEN raw_mapping.original_values.v ELSE @,
           !.new_values = IF Truthy(raw_mapping.new_values)
                          THEN raw_mapping.new_values.v ELSE @]

\* the mutation of C6: an unrecognised tag falls back to another category
category_of_default_mixed(change_type) ==
    DictGet(change_category_map, change_type, "MIXED")

\* the category lookup of _convert_to_tab
category_of(change_type) == DictGet(change_category_map, change_type, "UNCHANGED")

\* the mutation of C1: all_mappings combined in another order
combine_all_mappings_reordered(tab) ==
    tab.deleted_mappings \o tab.added_mappings \o
    tab.modified_mappings \o tab.unchanged_mappings

\* "Combine all mappings" of _convert_to_tab
combine_all_mappings(tab) ==
    tab.added_mappings \o tab.deleted_mappings \o
    tab.modified_mappings \o tab.unchanged_mappings

\* the mutation of C22: the unchanged list of the raw tab is converted too
_convert_to_tab_with_unchanged(raw_tab) ==
    LET change_category == category_of(raw_tab.change_type)
        tab == STTMTab(raw_tab.name, change_category)
        converted ==
          [tab EXCEPT
             !.added_mappings =
                IF Truthy(raw_tab.added_mappings)
                THEN [k \in DOMAIN raw_tab.added_mappings.v |->
                        _convert_to_mapping(raw_tab.added_mappings.v[k], "ADDED")]
                ELSE @,
             !.deleted_mappings =
                IF Truthy(raw_tab.deleted_mappings)
                THEN [k \in DOMAIN raw_tab.deleted_mappings.v |->
                        _convert_to_mapping(raw_tab.deleted_mappings.v[k], "DELETED")]
                ELSE @,
             !.modified_mappings =
                IF Truthy(raw_tab.modified_mappings)
                THEN [k \in DOMAIN raw_tab.modified_mappings.v |->
                        _convert_to_modified_mapping(raw_tab.modified_mappings.v[k])]
                ELSE @,
             !.unchanged_mappings =
                IF Truthy(raw_tab.unchanged_mappings)
                THEN [k \in DOMAIN raw_tab.unchanged_mappings.v |->
                        _convert_to_mapping(raw_tab.unchanged_mappings.v[k], "ADDED")]
                ELSE @]
    IN  [converted EXCEPT !.all_mappings = combine_all_mappings(converted)]

_convert_to_tab(raw_tab) ==
    LET change_category == category_of(raw_tab.change_type)
        tab == STTMTab(raw_tab.name, change_category)
        converted ==
          [tab EXCEPT
             !.added_mappings =
                IF Truthy(raw_tab.added_mappings)
                THEN [k \in DOMAIN raw_tab.added_mappings.v |->
                        _convert_to_mapping(raw_tab.added_mappings.v[k], "ADDED")]
                ELSE @,
             !.deleted_mappings =
                IF Truthy(raw_tab.deleted_mappings)
                THEN [k \in DOMAIN raw_tab.deleted_mappings.v |->
                        _convert_to_mapping(raw_tab.deleted_mappings.v[k], "DELETED")]
                ELSE @,
             !.modified_mappings =
                IF Truthy(raw_tab.modified_mappings)
                THEN [k \in DOMAIN raw_tab.modified_mappings.v |->
                        _convert_to_modified_mapping(raw_tab.modified_mappings.v[k])]
                ELSE @]
    IN  [converted EXCEPT !.all_mappings = combine_all_mappings(converted)]

\* the mutation of C2: total_changes counted over every tab
_update_document_stats_changes_of_all(doc) ==
    LET all_tabs == get_all_tabs(doc)
    IN  [doc EXCEPT
           !.total_tabs = Len(all_tabs),
           !.total_mappings = SumSeq([k \in DOMAIN all_tabs |-> Len(all_tabs[k].all_mappings)]),
           !.total_changes = SumSeq([k \in DOMAIN all_tabs |-> get_total_changes(all_tabs[k])])]

\* the mutation of C4: total_mappings counted over the changed tabs only
_update_document_stats_mappings_of_changed(doc) ==
    LET all_tabs == get_all_tabs(doc)
    IN  [doc EXCEPT
           !.total_tabs = Len(all_tabs),
           !.total_mappings = SumSeq([k \in DOMAIN doc.changed_tabs |-> Len(doc.changed_tabs[k].all_mappings)]),
           !.total_changes = SumSeq([k \in DOMAIN doc.changed_tabs |-> get_total_changes(doc.changed_tabs[k])])]

_update_document_stats(doc) ==
    LET all_tabs == get_all_tabs(doc)
    IN  [doc EXCEPT
           !.total_tabs = Len(all_tabs),
           !.total_mappings = SumSeq([k \in DOMAIN all_tabs |-> Len(all_tabs[k].all_mappings)]),
           !.total_changes = SumSeq([k \in DOMAIN doc.changed_tabs |-> get_total_changes(doc.changed_tabs[k])])]

\* the mutation of C3: an unchanged tab is also listed as changed
place_tab_unchanged_in_both(doc, raw_tab, tab) ==
    IF raw_tab.change_type = "unchanged"
    THEN [doc EXCEPT !.unchanged_tabs = Append(@, tab), !.changed_tabs = Append(@, tab)]
    ELSE [doc EXCEPT !.changed_tabs = Append(@, tab)]

\* the mutation of C5: placement by the mapped category instead of the raw tag
place_tab_by_category(doc, raw_tab, tab) ==
    IF tab.change_category = "UNCHANGED"
    THEN [doc EXCEPT !.unchanged_tabs = Append(@, tab)]
    ELSE [doc EXCEPT !.changed_tabs = Append(@, tab)]

\* the body of the loop of convert_to_document: where the new tab goes
place_tab(doc, raw_tab, tab) ==
    IF raw_tab.change_type = "unchanged"
    THEN [doc EXCEPT !.unchanged_tabs = Append(@, tab)]
    ELSE [doc EXCEPT !.changed_tabs = Append(@, tab)]

RECURSIVE convert_loop(_, _, _)
\* the loop of convert_to_document from the i-th raw tab on; the tab object
\* built in the i-th iteration has identity i
convert_loop(raws, i, doc) ==
    IF i > Len(raws) THEN doc
    ELSE LET tab == ("oid" :> i) @@ _convert_to_tab(raws[i])
         IN  convert_loop(raws, i + 1, place_tab(doc, raws[i], tab))

convert_to_document(raws) == _update_document_stats(convert_loop(raws, 1, STTMDocument))

----------------------------------------------------------------------------
(* Inputs of the converter *)

\* a raw mapping that carries diff data, one that carries none, and one
\* whose diff data are present and empty
RawPool ==
    << RawMappingData("cust_id", "id", Some("Customer Id"), Some("42"), Some("modified"),
                      Some(<< <<"sample_data", JStr("A")>> >>),
                      Some(<< <<"sample_data", JStr("B")>> >>),
                      Some(<<"sample_data">>)),
       RawMappingData("cust_name", "name", None, None, None, None, None, None),
       RawMappingData("cust_zip", "zip", None, None, Some("modified"),
                      Some(<<>>), Some(<<>>), Some(<<>>)) >>

\* the raw mapping list of length n
Rep(n) == [i \in 1..n |-> RawPool[((i - 1) % Len(RawPool)) + 1]]

\* the four mapping lists of a raw tab: all absent, or lists of length n in
\* the places a pattern names and empty lists elsewhere
ListShapes ==
    {<<None, None, None, None>>} \cup
    {<<Some(Rep(IF p \in {"all", "added"} THEN n ELSE 0)),
       Some(Rep(IF p = "all" THEN n ELSE 0)),
       Some(Rep(IF p = "all" THEN n ELSE 0)),
       Some(Rep(IF p \in {"all", "unchanged"} THEN n ELSE 0))>> :
         n \in 0..MaxMaps, p \in {"all", "added", "unchanged"}}

\* raw change-type tags: the five of the table and one it does not hold
Tags == DOMAIN change_category_map \cup {"unknown"}

TabNames == {"Customer"}

\* the raw mapping list of length n that starts after the o-th of the pool
RepFrom(o, n) == [i \in 1..n |-> RawPool[((o + i - 1) % Len(RawPool)) + 1]]

\* raw tabs whose modified list starts with a raw mapping without diff data
\* (o = 1: absent, o = 2: empty)
ModifiedOnlyTabs ==
    {RawTabData(n, "modifications_only", None, Some(<<>>), Some(RepFrom(o, k)), None) :
       n \in TabNames, o \in 1..2, k \in 1..MaxMaps}

RawTabSet ==
    {RawTabData(n, t, s[1], s[2], s[3], s[4]) : n \in TabNames, t \in Tags, s \in ListShapes}
      \cup ModifiedOnlyTabs

RawTabSeqs == UNION {[1..k -> RawTabSet] : k \in 0..MaxTabs}

----------------------------------------------------------------------------
(* parsers/sttm_format_adapter.py: adapters and STTMFormatAdapterFactory *)

\* adapter objects: the two built-in ones and two that a caller registers
BuiltinAdapters == <<"Current", "Legacy">>

CustomAdapters == {"CustomV3", "CustomLegacy"}

\* `key in json_data` for a JSON object
HasKey(json, key) == key \in DOMAIN json

\* the mutation of C11: Current accepts a document with one of its two keys
validate_format_any_required_key(a, json) ==
    CASE a = "Current" ->
           \E key \in {"report_metadata", "detailed_changes"} : HasKey(json, key)
      [] a = "Legacy" -> HasKey(json, "changed_tabs") /\ HasKey(json, "unchanged_tabs")
      [] a = "CustomV3" -> HasKey(json, "schema_version")
      [] a = "CustomLegacy" -> HasKey(json, "changed_tabs")

validate_format(a, json) ==
    CASE a = "Current" ->
           \A key \in {"report_metadata", "detailed_changes"} : HasKey(json, key)
      [] a = "Legacy" -> HasKey(json, "changed_tabs") /\ HasKey(json, "unchanged_tabs")
      [] a = "CustomV3" -> HasKey(json, "schema_version")
      [] a = "CustomLegacy" -> HasKey(json, "changed_tabs")

get_format_version(a) ==
    CASE a = "Current" -> "Excel Comparison Tool v2.0"
      [] a = "Legacy" -> "Legacy STTM v1.0"
      [] a = "CustomV3" -> "Custom v3"
      [] a = "CustomLegacy" -> "Custom legacy"

RECURSIVE get_adapter_from(_, _, _)
\* the loop of get_adapter from the i-th adapter on, then its default; the
\* result is the returned adapter and the record logged
get_adapter_from(adapters, i, json) ==
    IF i > Len(adapters)
    THEN [adapter |-> adapters[1],
          record |-> [level |-> "WARNING",
                      msg |-> "No specific adapter found, using current format adapter"]]
    ELSE IF validate_format(adapters[i], json)
         THEN [adapter |-> adapters[i],
               record |-> [level |-> "INFO", msg |-> get_format_version(adapters[i])]]
         ELSE get_adapter_from(adapters, i + 1, json)

\* the record get_adapter logs when it returns an adapter that matched
MatchRecord(a) == [level |-> "INFO", msg |-> get_format_version(a)]

\* the mutation of C7: the last adapter that accepts is returned
get_adapter_last_match(adapters, json) ==
    LET acc == {i \in DOMAIN adapters : validate_format(adapters[i], json)}
        last == CHOOSE i \in acc : \A j \in acc : j <= i
    IN  IF acc = {} THEN get_adapter_from(adapters, 1, json)
        ELSE [adapter |-> adapters[last], record |-> MatchRecord(adapters[last])]

\* the mutation of C10: the default is the last adapter of the list
get_adapter_default_last(adapters, json) ==
    LET r == get_adapter_from(adapters, 1, json)
    IN  IF r.record.level = "WARNING"
        THEN [r EXCEPT !.adapter = adapters[Len(adapters)]]
        ELSE r

get_adapter(adapters, json) == get_adapter_from(adapters, 1, json)

\* the mutation of C9: the new adapter is put at the end of the list
register_adapter_at_end(adapters, a) == Append(adapters, a)

register_adapter(adapters, a) == <<a>> \o adapters

----------------------------------------------------------------------------
(* validate_format on any JSON value *)

\* the keys of validate_format that occur in a text as substrings
KeysInText ==
    ("report_metadata detailed_changes" :> {"report_metadata", "detailed_changes"}) @@
    ("changed_tabs unchanged_tabs" :> {"changed_tabs", "unchanged_tabs"})

\* the texts x for which `x in value` is true, for a value that supports `in`
Contained(value) ==
    CASE value.type = "dict" -> DOMAIN value.d
      [] value.type = "list" ->
           {value.items[i].s : i \in {j \in DOMAIN value.items : value.items[j].type = "str"}}
      [] value.type = "str" -> DictGet(KeysInText, value.s, {value.s})

\* validate_format(json_data) on any JSON value: `in` raises TypeError on
\* None and on a number, tests the keys of a dict, the items of a list and
\* the substrings of a text
validate_format_call(a, value) ==
    IF value.type \in {"null", "number"}
    THEN Raised("TypeError")
    ELSE Returned(validate_format(a, [k \in Contained(value) |-> TRUE]))

----------------------------------------------------------------------------
(* parsers/sttm_format_adapter.py: CurrentSTTMFormatAdapter, extraction *)

\* the candidate keys of the four logical fields, in priority order
SourceFieldKeys == <<"Source Field", "source_field">>

TargetFieldKeys == <<"Target Field", "target_field">>

CanonicalNameKeys == <<"Source Canonical Name", "Target Canonical Name", "canonical_name">>

SampleDataKeys == <<"source_sample_data", "target_sample_data", "sample_data">>

RECURSIVE get_field_value_from(_, _, _)
\* the loop of _get_field_value from the i-th key on, then its default
get_field_value_from(data, possible_keys, i) ==
    IF i > Len(possible_keys) THEN ""
    ELSE IF possible_keys[i] \in DOMAIN data /\ PyTruthy(data[possible_keys[i]])
         THEN PyStr(data[possible_keys[i]])
         ELSE get_field_value_from(data, possible_keys, i + 1)

\* the mutation of C14: the first candidate key that is present is taken,
\* empty or not
_get_field_value_first_present(data, possible_keys) ==
    LET present == {i \in DOMAIN possible_keys : possible_keys[i] \in DOMAIN data}
        first == CHOOSE i \in present : \A j \in present : i <= j
    IN  IF present = {} \/ ~PyTruthy(data[possible_keys[first]]) THEN ""
        ELSE PyStr(data[possible_keys[first]])

_get_field_value(data, possible_keys) == get_field_value_from(data, possible_keys, 1)

_extract_mappings(mappings_data, change_type) ==
    [k \in DOMAIN mappings_data |->
       LET mapping_fields == DictGet(mappings_data[k], "mapping_fields", <<>>)
       IN  RawMappingData(_get_field_value(mapping_fields, SourceFieldKeys),
                          _get_field_value(mapping_fields, TargetFieldKeys),
                          Some(_get_field_value(mapping_fields, CanonicalNameKeys)),
                          Some(_get_field_value(mapping_fields, SampleDataKeys)),
                          Some(change_type), None, None, None)]

\* the key of field_changes whose entry sets the sample data
sample_change_key == "source_sample_data"

\* the mutation of C15: a bare scalar is recorded as an original value too
original_values_of_every_entry(field_changes) ==
    [i \in DOMAIN field_changes |->
       <<field_changes[i][1],
         IF field_changes[i][2].type = "dict"
         THEN DictGet(field_changes[i][2].d, "old_value", JNull)
         ELSE field_changes[i][2]>>]

\* "Extract change details": the entries of field_changes that are dicts
original_values_of(field_changes) ==
    LET pairs == SelectSeq(field_changes, LAMBDA e : e[2].type = "dict")
    IN  [i \in DOMAIN pairs |-> <<pairs[i][1], DictGet(pairs[i][2].d, "old_value", JNull)>>]

\* "Extract change details": every entry of field_changes
new_values_of(field_changes) ==
    [i \in DOMAIN field_changes |->
       <<field_changes[i][1],
         IF field_changes[i][2].type = "dict"
         THEN DictGet(field_changes[i][2].d, "new_value", JNull)
         ELSE field_changes[i][2]>>]

\* list(field_changes.keys())
modified_fields_of(field_changes) == OKeys(field_changes)

\* "Set sample data from changes if available"
sample_data_of(field_changes) ==
    IF OHas(field_changes, sample_change_key)
         /\ OGet(field_changes, sample_change_key).type = "dict"
    THEN PyOptional(DictGet(OGet(field_changes, sample_change_key).d, "new_value", JNull))
    ELSE None

_extract_modified_mappings(mappings_data) ==
    [k \in DOMAIN mappings_data |->
       LET mapping_fields == DictGet(mappings_data[k], "mapping_fields", <<>>)
           field_changes == DictGet(mappings_data[k], "field_changes", <<>>)
       IN  RawMappingData(_get_field_value(mapping_fields, SourceFieldKeys),
                          _get_field_value(mapping_fields, TargetFieldKeys),
                          Some(_get_field_value(mapping_fields, CanonicalNameKeys)),
                          sample_data_of(field_changes),
                          Some("modified"),
                          Some(original_values_of(field_changes)),
                          Some(new_values_of(field_changes)),
                          Some(modified_fields_of(field_changes)))]

\* the mutation of C19: a tab record without "tab_name" gets the empty name
empty_tab_name == ""

\* the name given to a tab record without "tab_name"
default_tab_name == "Unknown"

\* the mutation of C21: a record of "changed_tabs" without "change_type" is
\* tagged "unknown"
_extract_tab_data_default_unknown(tab_data, is_changed) ==
    LET mappings_data == DictGet(tab_data, "mappings", <<>>)
        raw_tab == RawTabData(DictGet(tab_data, "tab_name", default_tab_name),
                              IF is_changed
                              THEN DictGet(tab_data, "change_type", "unknown")
                              ELSE "unchanged",
                              None, None, None, None)
    IN  [raw_tab EXCEPT
           !.source_system = IF "source_system" \in DOMAIN tab_data
                             THEN Some(tab_data["source_system"]) ELSE None,
           !.target_system = IF "target_system" \in DOMAIN tab_data
                             THEN Some(tab_data["target_system"]) ELSE None,
           !.added_mappings =
              Some(_extract_mappings(DictGet(mappings_data, "added_mappings", <<>>), "added")),
           !.deleted_mappings =
              Some(_extract_mappings(DictGet(mappings_data, "deleted_mappings", <<>>), "deleted")),
           !.modified_mappings =
              Some(_extract_modified_mappings(DictGet(mappings_data, "modified_mappings", <<>>)))]

_extract_tab_data(tab_data, is_changed) ==
    LET mappings_data == DictGet(tab_data, "mappings", <<>>)
        raw_tab == RawTabData(DictGet(tab_data, "tab_name", default_tab_name),
                              IF is_changed
                              THEN DictGet(tab_data, "change_type", "unchanged")
                              ELSE "unchanged",
                              None, None, None, None)
    IN  [raw_tab EXCEPT
           !.source_system = IF "source_system" \in DOMAIN tab_data
                             THEN Some(tab_data["source_system"]) ELSE None,
           !.target_system = IF "target_system" \in DOMAIN tab_data
                             THEN Some(tab_data["target_system"]) ELSE None,
           !.added_mappings =
              Some(_extract_mappings(DictGet(mappings_data, "added_mappings", <<>>), "added")),
           !.deleted_mappings =
              Some(_extract_mappings(DictGet(mappings_data, "deleted_mappings", <<>>), "deleted")),
           !.modified_mappings =
              Some(_extract_modified_mappings(DictGet(mappings_data, "modified_mappings", <<>>)))]

\* the raw tabs of one of the two lists of "detailed_changes"
extract_tabs(tabs, is_changed) ==
    [k \in DOMAIN tabs |-> _extract_tab_data(tabs[k], is_changed)]

\* the mutation of C13: the records of "unchanged_tabs" keep their own tag
extract_raw_data_all_changed(json) ==
    LET detailed_changes == DictGet(json, "detailed_changes", <<>>)
        changed_tabs == DictGet(detailed_changes, "changed_tabs", <<>>)
        unchanged_tabs == DictGet(detailed_changes, "unchanged_tabs", <<>>)
    IN  extract_tabs(changed_tabs, TRUE) \o extract_tabs(unchanged_tabs, TRUE)

extract_raw_data(json) ==
    LET detailed_changes == DictGet(json, "detailed_changes", <<>>)
        changed_tabs == DictGet(detailed_changes, "changed_tabs", <<>>)
        unchanged_tabs == DictGet(detailed_changes, "unchanged_tabs", <<>>)
    IN  extract_tabs(changed_tabs, TRUE) \o extract_tabs(unchanged_tabs, FALSE)

\* extract_raw_data(json_data) on any JSON value: only a dict has .get
extract_raw_data_call(value) ==
    IF value.type = "dict" THEN Returned(extract_raw_data(value.d))
    ELSE Raised("AttributeError")

\* the mutation of C20: the changes of the tabs of both lists are summed
get_summary_changes_of_all_tabs(doc) ==
    LET CountOf(category) ==
          Len(SelectSeq(doc.changed_tabs, LAMBDA t : t.change_category = category))
    IN  [total_tabs |-> Len(get_all_tabs(doc)),
         changed_tabs |-> Len(doc.changed_tabs),
         unchanged_tabs |-> Len(doc.unchanged_tabs),
         total_changes |->
           SumSeq([k \in DOMAIN get_all_tabs(doc) |-> get_total_changes(get_all_tabs(doc)[k])]),
         tabs_by_change_type |->
           [additions_only |-> CountOf("ADDITIONS_ONLY"),
            deletions_only |-> CountOf("DELETIONS_ONLY"),
            modifications_only |-> CountOf("MODIFICATIONS_ONLY"),
            mixed |-> CountOf("MIXED")]]

\* STTMDocument.get_summary
get_summary(doc) ==
    LET CountOf(category) ==
          Len(SelectSeq(doc.changed_tabs, LAMBDA t : t.change_category = category))
    IN  [total_tabs |-> Len(get_all_tabs(doc)),
         changed_tabs |-> Len(doc.changed_tabs),
         unchanged_tabs |-> Len(doc.unchanged_tabs),
         total_changes |->
           SumSeq([k \in DOMAIN doc.changed_tabs |-> get_total_changes(doc.changed_tabs[k])]),
         tabs_by_change_type |->
           [additions_only |-> CountOf("ADDITIONS_ONLY"),
            deletions_only |-> CountOf("DELETIONS_ONLY"),
            modifications_only |-> CountOf("MODIFICATIONS_ONLY"),
            mixed |-> CountOf("MIXED")]]

----------------------------------------------------------------------------
(* parsers/sttm_format_adapter.py: LegacySTTMFormatAdapter, extraction.     *)
(* The value under "changed_tabs" carries its type: a dict of tab records   *)
(* by name, held in d as the <<name, record>> pairs in insertion order, or  *)
(* a list.                                                                  *)

\* the mutation of C23: a record without "type" is tagged "unchanged"
legacy_tabs_default_unchanged(changed_tabs) ==
    [i \in DOMAIN changed_tabs |->
       RawTabData(changed_tabs[i][1], DictGet(changed_tabs[i][2], "type", "unchanged"),
                  None, None, None, None)]

\* the for loop over changed_tabs.items()
legacy_tabs(changed_tabs) ==
    [i \in DOMAIN changed_tabs |->
       RawTabData(changed_tabs[i][1], DictGet(changed_tabs[i][2], "type", "unknown"),
                  None, None, None, None)]

\* LegacySTTMFormatAdapter.extract_raw_data(json_data) on any JSON value:
\* only a dict has .get, and only a dict has .items()
legacy_extract_raw_data_call(value) ==
    IF value.type # "dict" THEN Raised("AttributeError")
    ELSE LET changed_tabs == DictGet(value.d, "changed_tabs", JDict(<<>>))
         IN  IF changed_tabs.type # "dict" THEN Raised("AttributeError")
             ELSE Returned(legacy_tabs(changed_tabs.d))

----------------------------------------------------------------------------
(* Inputs of the factory *)

TopLevelKeys ==
    {"report_metadata", "detailed_changes", "changed_tabs", "unchanged_tabs",
     "schema_version"}

\* JSON objects by their top-level keys
JsonDocs == {[k \in ks |-> <<>>] : ks \in SUBSET TopLevelKeys}

----------------------------------------------------------------------------
(* The converter: one call of convert_to_document on a raw tab sequence *)

InitPipeVars ==
    /\ input = JNull
    /\ valid = None
    /\ summary = None

InitFactoryVars ==
    /\ _adapters = BuiltinAdapters
    /\ registered = <<>>
    /\ json_data = None
    /\ adapter = None
    /\ log = <<>>

Init ==
    /\ raw_tabs \in RawTabSeqs
    /\ document = STTMDocument
    /\ pc = "start"
    /\ InitFactoryVars
    /\ InitPipeVars

ConvertToDocument ==
    /\ pc = "start"
    /\ document' = convert_to_document(raw_tabs)
    /\ pc' = "done"
    /\ UNCHANGED <<raw_tabs, factoryVars, pipeVars>>

Next == ConvertToDocument

Spec == Init /\ [][Next]_vars

----------------------------------------------------------------------------
(* The factory: register_adapter and get_adapter calls in any order *)

InitFactory ==
    /\ raw_tabs = <<>>
    /\ document = STTMDocument
    /\ pc = "idle"
    /\ InitFactoryVars
    /\ InitPipeVars

RegisterAdapter(a) ==
    /\ Len(_adapters) < MaxAdapters
    /\ _adapters' = register_adapter(_adapters, a)
    /\ registered' = Append(registered, a)
    /\ UNCHANGED <<json_data, adapter, log, convVars, pipeVars>>

GetAdapter(json) ==
    /\ Len(log) < MaxLog
    /\ LET r == get_adapter(_adapters, json)
       IN  /\ adapter' = Some(r.adapter)
           /\ log' = Append(log, r.record)
    /\ json_data' = Some(json)
    /\ UNCHANGED <<_adapters, registered, convVars, pipeVars>>

NextFactory ==
    \/ \E a \in CustomAdapters : RegisterAdapter(a)
    \/ \E json \in JsonDocs : GetAdapter(json)

SpecFactory == InitFactory /\ [][NextFactory]_vars

----------------------------------------------------------------------------
(* Inputs of the adapters: JSON values handed to validate_format and to the *)
(* extraction of the current format                                         *)

\* the text stored under a candidate key that has a value
FieldText ==
    [key \in {SourceFieldKeys[i] : i \in DOMAIN SourceFieldKeys}
              \cup {TargetFieldKeys[i] : i \in DOMAIN TargetFieldKeys}
              \cup {CanonicalNameKeys[i] : i \in DOMAIN CanonicalNameKeys}
              \cup {SampleDataKeys[i] : i \in DOMAIN SampleDataKeys} |->
       CASE key = "Source Field" -> "CUST_ID"
         [] key = "source_field" -> "cust_id"
         [] key = "Target Field" -> "ID"
         [] key = "target_field" -> "id"
         [] key = "Source Canonical Name" -> "Customer.SourceId"
         [] key = "Target Canonical Name" -> "Customer.TargetId"
         [] key = "canonical_name" -> "Customer.Id"
         [] key = "source_sample_data" -> "42"
         [] key = "target_sample_data" -> "43"
         [] key = "sample_data" -> "44"]

\* what a mapping_fields dict holds for a candidate key
Cells == {"absent", "empty", "null", "text"}

\* the value of a candidate key in state cell (the key is there)
CellValue(key, cell) ==
    CASE cell = "empty" -> JStr("")
      [] cell = "null" -> JNull
      [] cell = "text" -> JStr(FieldText[key])

\* the three priority positions take their states from a pattern
CellPatterns == [1..3 -> Cells]

\* the position of a candidate key in its list
Priority(key) ==
    LET lists == <<SourceFieldKeys, TargetFieldKeys, CanonicalNameKeys, SampleDataKeys>>
        l == CHOOSE n \in DOMAIN lists : \E i \in DOMAIN lists[n] : lists[n][i] = key
    IN  CHOOSE i \in DOMAIN lists[l] : lists[l][i] = key

\* a mapping_fields dict: every candidate key in the state of its position
MappingFields(pattern) ==
    [key \in {k \in DOMAIN FieldText : pattern[Priority(k)] # "absent"} |->
       CellValue(key, pattern[Priority(key)])]

\* the added and deleted mapping records: one per pattern, and one record
\* without "mapping_fields"
MappingRecords == {[mapping_fields |-> MappingFields(q)] : q \in CellPatterns} \cup {<<>>}

ChangePair(old, new) == JDict([old_value |-> old, new_value |-> new])

\* the field_changes dicts, in insertion order
FieldChanges ==
    { << <<"sample_data", ChangePair(JStr("A"), JStr("B"))>> >>,
      << <<"source_sample_data", ChangePair(JStr("A"), JStr("B"))>> >>,
      << <<"source_sample_data", JStr("S")>> >>,
      << <<"source_sample_data", ChangePair(JStr("A"), JNull)>> >>,
      << <<"Target Field", ChangePair(JStr("OLD_ID"), JStr("ID"))>>,
         <<"Source Field", JStr("CUST_ID")>> >>,
      << <<"target_sample_data", JDict([new_value |-> JStr("B")])>>,
         <<"source_sample_data", JDict([old_value |-> JStr("A")])>> >>,
      << <<"canonical_name", JNull>> >>,
      <<>> }

\* the modified mapping records
ModifiedRecords ==
    {[mapping_fields |-> MappingFields(q), field_changes |-> fc] :
       q \in {[i \in 1..3 |-> "text"], [i \in 1..3 |-> "absent"]}, fc \in FieldChanges}
    \cup {[field_changes |-> fc] : fc \in FieldChanges}
    \cup {[mapping_fields |-> MappingFields([i \in 1..3 |-> "empty"])], <<>>}

\* the lists of equal records, up to MaxMaps long
RecordLists(records) == {[k \in 1..n |-> r] : r \in records, n \in 1..MaxMaps}

\* tab records with one list of mapping records
MappingTabs ==
    {[tab_name |-> "Customer", change_type |-> "additions_only",
      mappings |-> [added_mappings |-> l]] : l \in RecordLists(MappingRecords)}
    \cup {[tab_name |-> "Customer", change_type |-> "deletions_only",
           mappings |-> [deleted_mappings |-> l]] : l \in RecordLists(MappingRecords)}
    \cup {[tab_name |-> "Customer", change_type |-> "modifications_only",
           mappings |-> [modified_mappings |-> l]] : l \in RecordLists(ModifiedRecords)}

ExampleAdded == [mapping_fields |-> [source_field |-> JStr("cust_id"), target_field |-> JStr("id")]]

ExampleDeleted == [mapping_fields |-> [source_field |-> JStr("cust_name"), target_field |-> JStr("name")]]

ExampleModified ==
    [mapping_fields |-> [source_field |-> JStr("cust_zip"), target_field |-> JStr("zip")],
     field_changes |-> << <<"sample_data", ChangePair(JStr("A"), JStr("B"))>> >>]

\* tab records with and without each key the extraction reads
PlainTabs ==
    { [tab_name |-> "Customer", change_type |-> "mixed",
       mappings |-> [added_mappings |-> <<ExampleAdded>>, deleted_mappings |-> <<ExampleDeleted>>]],
      [tab_name |-> "Orders"],
      [tab_name |-> "Orders", change_type |-> "unchanged", mappings |-> <<>>],
      [tab_name |-> "Items", change_type |-> "modifications_only",
       source_system |-> "SAP", target_system |-> "DWH",
       mappings |-> [added_mappings |-> <<>>, deleted_mappings |-> <<>>,
                     modified_mappings |-> <<ExampleModified>>]],
      [tab_name |-> "Items", change_type |-> "additions_only",
       mappings |-> [added_mappings |-> <<ExampleAdded>>]],
      [tab_name |-> "Items", change_type |-> "deletions_only",
       mappings |-> [deleted_mappings |-> <<ExampleDeleted>>]],
      [change_type |-> "mixed",
       mappings |-> [added_mappings |-> << <<>> >>, modified_mappings |-> <<ExampleModified>>]],
      [tab_name |-> "Audit", change_type |-> "unknown"],
      <<>> }

\* tab records that carry mappings and no tag of a change
UntaggedTabs ==
    { [tab_name |-> "Orders", mappings |-> [added_mappings |-> <<ExampleAdded>>]],
      [tab_name |-> "Orders", change_type |-> "unchanged",
       mappings |-> [deleted_mappings |-> <<ExampleDeleted>>,
                     modified_mappings |-> <<ExampleModified>>]] }

\* the "detailed_changes" dicts: the two lists of tab records, each with up
\* to MaxTabs records in all, and the dicts that lack one list or both
DetailedChanges ==
    {[changed_tabs |-> <<t>>] : t \in MappingTabs}
    \cup {[changed_tabs |-> <<>>, unchanged_tabs |-> <<t>>] : t \in MappingTabs}
    \cup {[changed_tabs |-> c, unchanged_tabs |-> u] :
            c \in UNION {[1..n -> PlainTabs] : n \in 0..MaxTabs},
            u \in UNION {[1..n -> PlainTabs] : n \in 0..1}}
    \cup {[changed_tabs |-> c, unchanged_tabs |-> u] :
            c \in UNION {[1..n -> PlainTabs] : n \in 0..1},
            u \in UNION {[1..n -> PlainTabs] : n \in 0..MaxTabs}}
    \cup {[unchanged_tabs |-> <<t>>] : t \in PlainTabs}
    \cup {[changed_tabs |-> <<t>>] : t \in UntaggedTabs}
    \cup {[changed_tabs |-> <<t, p>>] : t \in UntaggedTabs, p \in PlainTabs}
    \cup {<<>>}

\* the reports: every set of top-level keys around an empty
\* "detailed_changes", and the filled ones with and without "report_metadata"
Reports ==
    {[k \in ks |-> <<>>] : ks \in SUBSET TopLevelKeys}
    \cup {[report_metadata |-> <<>>, detailed_changes |-> dc] : dc \in DetailedChanges}
    \cup {[detailed_changes |-> [changed_tabs |-> <<t>>]] : t \in PlainTabs}

\* the JSON values that are not objects
NonObjects ==
    { JNull, JNumber(0), JNumber(7), JStr(""), JStr("report_metadata"),
      JStr("report_metadata detailed_changes"), JStr("changed_tabs unchanged_tabs"),
      JList(<<>>), JList(<<JStr("report_metadata"), JStr("detailed_changes")>>),
      JList(<<JStr("changed_tabs"), JStr("unchanged_tabs"), JNumber(7)>>) }

JsonInputs == {JDict(d) : d \in Reports} \cup NonObjects

----------------------------------------------------------------------------
(* The pipeline on one JSON value: validate_format of every adapter, then   *)
(* the current adapter's extract_raw_data, convert_to_document, get_summary *)

InitPipeline ==
    /\ input \in JsonInputs
    /\ valid = None
    /\ summary = None
    /\ raw_tabs = <<>>
    /\ document = STTMDocument
    /\ pc = "validate"
    /\ InitFactoryVars

ValidateFormat ==
    /\ pc = "validate"
    /\ valid' = Some([a \in {BuiltinAdapters[i] : i \in DOMAIN BuiltinAdapters} |->
                        validate_format_call(a, input)])
    /\ pc' = "extract"
    /\ UNCHANGED <<input, summary, raw_tabs, document, factoryVars>>

ExtractedRecord(n) == [level |-> "DEBUG", msg |-> "Extracted tabs from current format", count |-> n]

ExtractRawData ==
    /\ pc = "extract"
    /\ LET r == extract_raw_data_call(input)
       IN  IF r.raised
           THEN /\ pc' = "failed"
                /\ UNCHANGED <<raw_tabs, log>>
           ELSE /\ raw_tabs' = r.value
                /\ log' = Append(log, ExtractedRecord(Len(r.value)))
                /\ pc' = "start"
    /\ UNCHANGED <<document, _adapters, registered, json_data, adapter, pipeVars>>

GetSummary ==
    /\ pc = "done"
    /\ summary' = Some(get_summary(document))
    /\ pc' = "summarised"
    /\ UNCHANGED <<input, valid, raw_tabs, document, factoryVars>>

NextPipeline ==
    \/ ValidateFormat
    \/ ExtractRawData
    \/ ConvertToDocument
    \/ GetSummary

SpecPipeline == InitPipeline /\ [][NextPipeline]_vars

----------------------------------------------------------------------------
(* Inputs of the legacy adapter *)

LegacyNames == {"Customer", "Orders", "Items"}

\* tab records of the legacy format, with and without "type"
LegacyRecords ==
    { <<>>,
      [type |-> "mixed"],
      [type |-> "unchanged"],
      [type |-> "additions_only", mappings |-> [added_mappings |-> <<ExampleAdded>>]] }

\* the dicts of tab records by name, with up to MaxTabs entries
LegacyTabMaps ==
    {m \in UNION {[1..n -> LegacyNames \X LegacyRecords] : n \in 0..MaxTabs} :
       \A i, j \in DOMAIN m : i # j => m[i][1] # m[j][1]}

\* what a report holds under "changed_tabs" and under "unchanged_tabs"
LegacyChanged == {JDict(m) : m \in LegacyTabMaps} \cup {JList(<<>>)}

LegacyUnchanged == {JDict(<<>>), JDict(<< <<"Orders", [type |-> "unchanged"]>> >>)}

\* the reports: the two legacy keys, each there or not, beside none, one or
\* both keys of the current format
LegacyReports ==
    {[k \in ks \cup ls |->
        CASE k = "changed_tabs" -> c
          [] k = "unchanged_tabs" -> u
          [] OTHER -> <<>>] :
       ks \in {{}, {"report_metadata"}, {"report_metadata", "detailed_changes"}},
       ls \in {{"changed_tabs", "unchanged_tabs"}, {"changed_tabs"}},
       c \in LegacyChanged, u \in LegacyUnchanged}
    \cup {[k \in {"unchanged_tabs"} |-> u] : u \in LegacyUnchanged}

LegacyInputs == {JDict(d) : d \in LegacyReports} \cup {JNull}

----------------------------------------------------------------------------
(* The legacy pipeline on one JSON value: validate_format of every adapter, *)
(* then the legacy adapter's extract_raw_data and convert_to_document       *)

InitLegacy ==
    /\ input \in LegacyInputs
    /\ valid = None
    /\ summary = None
    /\ raw_tabs = <<>>
    /\ document = STTMDocument
    /\ pc = "validate"
    /\ InitFactoryVars

ExtractRawDataLegacy ==
    /\ pc = "extract"
    /\ LET r == legacy_extract_raw_data_call(input)
       IN  IF r.raised
           THEN /\ pc' = "failed"
                /\ UNCHANGED raw_tabs
           ELSE /\ raw_tabs' = r.value
                /\ pc' = "start"
    /\ UNCHANGED <<document, factoryVars, pipeVars>>

NextLegacy ==
    \/ ValidateFormat
    \/ ExtractRawDataLegacy
    \/ ConvertToDocument

SpecLegacy == InitLegacy /\ [][NextLegacy]_vars

----------------------------------------------------------------------------
(* Claims about the converter, checked under Spec *)

Range(s) == {s[i] : i \in DOMAIN s}

\* every tab of the returned document, changed tabs first
DocTabs == document.changed_tabs \o document.unchanged_tabs

\* the positions of a tab list that hold the tab built from the i-th raw tab
Holding(tabs, i) == {j \in DOMAIN tabs : tabs[j].oid = i}

ChangeCount(tab) ==
    Len(tab.added_mappings) + Len(tab.deleted_mappings) + Len(tab.modified_mappings)

\* C1: in every converted tab all_mappings is added + deleted + modified +
\* unchanged in that order, its length is the sum of the four lengths, and no
\* mapping is in two of the four lists.
C1_AllMappingsIsOrderedConcatenation ==
    pc = "done" =>
      \A k \in DOMAIN DocTabs :
        LET tab == DocTabs[k]
            lists == <<tab.added_mappings, tab.deleted_mappings,
                       tab.modified_mappings, tab.unchanged_mappings>>
        IN  /\ tab.all_mappings = lists[1] \o lists[2] \o lists[3] \o lists[4]
            /\ Len(tab.all_mappings) =
                 Len(lists[1]) + Len(lists[2]) + Len(lists[3]) + Len(lists[4])
            /\ \A a, b \in 1..4 : a # b => Range(lists[a]) \cap Range(lists[b]) = {}

\* a tab converted from a raw tab whose four lists all hold mappings
C1_Witness ==
    /\ pc = "done"
    /\ \E k \in DOMAIN DocTabs :
         /\ Len(DocTabs[k].added_mappings) > 0
         /\ Len(DocTabs[k].deleted_mappings) > 0
         /\ Len(DocTabs[k].modified_mappings) > 0
         /\ Truthy(raw_tabs[DocTabs[k].oid].unchanged_mappings)

\* C2: total_changes is the sum over changed_tabs only of the added, deleted
\* and modified counts; what unchanged_tabs hold does not count.
C2_TotalChangesOverChangedTabsOnly ==
    pc = "done" =>
      document.total_changes =
        SumSeq([k \in DOMAIN document.changed_tabs |->
                  ChangeCount(document.changed_tabs[k])])

\* a document with changes in a changed tab and in an unchanged tab
C2_Witness ==
    /\ pc = "done"
    /\ \E k \in DOMAIN document.unchanged_tabs :
         ChangeCount(document.unchanged_tabs[k]) > 0
    /\ \E k \in DOMAIN document.changed_tabs :
         ChangeCount(document.changed_tabs[k]) > 0
    /\ document.total_changes > 0

\* C3: each raw tab yields exactly one tab, held once by exactly one of
\* changed_tabs and unchanged_tabs, and total_tabs = len(changed_tabs) +
\* len(unchanged_tabs) = the number of raw tabs.
C3_EachTabInExactlyOneList ==
    pc = "done" =>
      /\ \A i \in DOMAIN raw_tabs :
           /\ Cardinality(Holding(document.changed_tabs, i)) +
                Cardinality(Holding(document.unchanged_tabs, i)) = 1
           /\ \A k \in Holding(DocTabs, i) : DocTabs[k].name = raw_tabs[i].name
      /\ \A k \in DOMAIN DocTabs : DocTabs[k].oid \in DOMAIN raw_tabs
      /\ document.total_tabs = Len(document.changed_tabs) + Len(document.unchanged_tabs)
      /\ document.total_tabs = Len(raw_tabs)

\* a document with a changed and an unchanged tab
C3_Witness ==
    /\ pc = "done"
    /\ Len(raw_tabs) >= 2
    /\ Len(document.changed_tabs) > 0
    /\ Len(document.unchanged_tabs) > 0

\* C4: total_mappings is the sum of len(all_mappings) over every tab, changed
\* and unchanged alike.
C4_TotalMappingsOverEveryTab ==
    pc = "done" =>
      document.total_mappings =
        SumSeq([k \in DOMAIN DocTabs |-> Len(DocTabs[k].all_mappings)])

\* a document whose changed tab and unchanged tab both hold mappings
C4_Witness ==
    /\ pc = "done"
    /\ \E k \in DOMAIN document.changed_tabs :
         Len(document.changed_tabs[k].all_mappings) > 0
    /\ \E k \in DOMAIN document.unchanged_tabs :
         Len(document.unchanged_tabs[k].all_mappings) > 0

\* C5: a tab is in unchanged_tabs iff its raw tag is exactly "unchanged", and in
\* changed_tabs otherwise, whatever its category and its mapping lists.
C5_PlacementByRawTag ==
    pc = "done" =>
      \A i \in DOMAIN raw_tabs :
        /\ raw_tabs[i].change_type = "unchanged" <=>
             Holding(document.unchanged_tabs, i) # {}
        /\ raw_tabs[i].change_type # "unchanged" <=>
             Holding(document.changed_tabs, i) # {}

\* a tab of an unrecognised tag, category UNCHANGED and no mappings among the
\* changed tabs, and a tab with mappings among the unchanged tabs
C5_Witness ==
    /\ pc = "done"
    /\ \E k \in DOMAIN document.changed_tabs :
         LET tab == document.changed_tabs[k]
         IN  /\ raw_tabs[tab.oid].change_type \notin DOMAIN change_category_map
             /\ tab.change_category = "UNCHANGED"
             /\ tab.all_mappings = <<>>
    /\ \E k \in DOMAIN document.unchanged_tabs :
         ChangeCount(document.unchanged_tabs[k]) > 0

\* C6: the tags mixed, modifications_only, additions_only, deletions_only and
\* unchanged give the category of the same name, every other tag gives the
\* category unchanged, and the conversion yields a tab for every raw tab.
C6_CategoryTable ==
    pc = "done" =>
      /\ Len(DocTabs) = Len(raw_tabs)
      /\ \A k \in DOMAIN DocTabs :
           LET tag == raw_tabs[DocTabs[k].oid].change_type
           IN  TabChangeCategory[DocTabs[k].change_category] =
                 IF tag \in {"mixed", "modifications_only", "additions_only",
                             "deletions_only", "unchanged"}
                 THEN tag ELSE "unchanged"

\* a document with a tab of an unrecognised tag and a tab of the tag mixed
C6_Witness ==
    /\ pc = "done"
    /\ \E k \in DOMAIN DocTabs :
         /\ raw_tabs[DocTabs[k].oid].change_type = "unknown"
         /\ DocTabs[k].change_category = "UNCHANGED"
    /\ \E k \in DOMAIN DocTabs :
         /\ raw_tabs[DocTabs[k].oid].change_type = "mixed"
         /\ DocTabs[k].change_category = "MIXED"

\* C17: a mapping of an added list is classified added, one of a deleted list
\* deleted, and both have empty modified_fields, original_values and
\* new_values whatever the raw record carried; only a mapping classified
\* modified has any of the three non-empty.
C17_DiffDataOnlyOnModified ==
    pc = "done" =>
      \A k \in DOMAIN DocTabs :
        LET tab == DocTabs[k]
            NoDiff(m) == m.modified_fields = <<>> /\ m.original_values = <<>>
                           /\ m.new_values = <<>>
        IN  /\ \A j \in DOMAIN tab.added_mappings :
                 ChangeType[tab.added_mappings[j].change_type] = "added"
                   /\ NoDiff(tab.added_mappings[j])
            /\ \A j \in DOMAIN tab.deleted_mappings :
                 ChangeType[tab.deleted_mappings[j].change_type] = "deleted"
                   /\ NoDiff(tab.deleted_mappings[j])
            /\ \A j \in DOMAIN tab.all_mappings :
                 ~NoDiff(tab.all_mappings[j]) =>
                   ChangeType[tab.all_mappings[j].change_type] = "modified"

\* an added and a deleted mapping whose raw records carried diff data, next to
\* a modified mapping that keeps them
C17_Witness ==
    /\ pc = "done"
    /\ \E k \in DOMAIN DocTabs :
         LET raw == raw_tabs[DocTabs[k].oid]
         IN  /\ Len(DocTabs[k].added_mappings) > 0
             /\ Truthy(raw.added_mappings.v[1].modified_fields)
             /\ Truthy(raw.added_mappings.v[1].original_values)
             /\ Len(DocTabs[k].deleted_mappings) > 0
             /\ Truthy(raw.deleted_mappings.v[1].new_values)
             /\ Len(DocTabs[k].modified_mappings) > 0
             /\ DocTabs[k].modified_mappings[1].modified_fields # <<>>

\* what a mapping holds for an Optional list or dict of its raw record
Carried(o) == IF o = None THEN <<>> ELSE o.v

\* C18: the modified list of a raw tab becomes, record by record, mappings
\* classified modified whose modified_fields, original_values and new_values
\* are those of the raw record, and empty when the raw record has none.
C18_ModifiedCarriesDiffVerbatim ==
    pc = "done" =>
      \A k \in DOMAIN DocTabs :
        LET tab == DocTabs[k]
            raws == Carried(raw_tabs[tab.oid].modified_mappings)
        IN  /\ Len(tab.modified_mappings) = Len(raws)
            /\ \A j \in DOMAIN raws :
                 LET m == tab.modified_mappings[j]
                 IN  /\ ChangeType[m.change_type] = "modified"
                     /\ m.modified_fields = Carried(raws[j].modified_fields)
                     /\ m.original_values = Carried(raws[j].original_values)
                     /\ m.new_values = Carried(raws[j].new_values)

\* a modified mapping that carries the diff data of its raw record, and one
\* whose raw record had none
C18_Witness ==
    /\ pc = "done"
    /\ \E k \in DOMAIN DocTabs :
         /\ Len(DocTabs[k].modified_mappings) > 0
         /\ DocTabs[k].modified_mappings[1].original_values = << <<"sample_data", JStr("A")>> >>
         /\ DocTabs[k].modified_mappings[1].new_values = << <<"sample_data", JStr("B")>> >>
         /\ DocTabs[k].modified_mappings[1].modified_fields = <<"sample_data">>
    /\ \E k \in DOMAIN DocTabs :
         /\ Len(DocTabs[k].modified_mappings) > 0
         /\ raw_tabs[DocTabs[k].oid].modified_mappings.v[1].original_values = None
         /\ DocTabs[k].modified_mappings[1].original_values = <<>>
         /\ DocTabs[k].modified_mappings[1].modified_fields = <<>>

\* C22: the converter never carries the unchanged_mappings of a raw tab into
\* the document: every tab has an empty unchanged_mappings whatever the raw
\* tab held, so all_mappings has as many mappings as the added, deleted and
\* modified lists together, total_mappings is the sum of get_total_changes
\* over the tabs of both lists, and total_changes <= total_mappings.
C22_UnchangedMappingsNeverCarried ==
    pc = "done" =>
        /\ \A k \in DOMAIN DocTabs :
              /\ DocTabs[k].unchanged_mappings = <<>>
              /\ Len(DocTabs[k].all_mappings) = ChangeCount(DocTabs[k])
        /\ document.total_mappings = SumSeq([k \in DOMAIN DocTabs |-> ChangeCount(DocTabs[k])])
        /\ document.total_changes <= document.total_mappings

C22_Witness ==
    /\ pc = "done"
    /\ \E i \in DOMAIN raw_tabs :
          /\ raw_tabs[i].change_type = "mixed"
          /\ Truthy(raw_tabs[i].unchanged_mappings)
          /\ Truthy(raw_tabs[i].added_mappings)
          /\ \E k \in Holding(document.changed_tabs, i) :
                /\ document.changed_tabs[k].unchanged_mappings = <<>>
                /\ Len(document.changed_tabs[k].all_mappings) = 3 * MaxMaps
    /\ \E i \in DOMAIN raw_tabs :
          /\ raw_tabs[i].change_type = "unchanged"
          /\ Truthy(raw_tabs[i].added_mappings)
    /\ document.total_changes < document.total_mappings

----------------------------------------------------------------------------
(* Claims about the factory, checked under SpecFactory.  A step that adds a *)
(* log record is a get_adapter call; one that extends registered is a       *)
(* register_adapter call.                                                   *)

\* the positions of an adapter list whose adapter accepts the document
Accepting(adapters, json) ==
    {i \in DOMAIN adapters : validate_format(adapters[i], json)}

LacksCurrentKeys(json) ==
    ~HasKey(json, "report_metadata") /\ ~HasKey(json, "detailed_changes")

\* C7: when some adapter of the list accepts the document, get_adapter returns
\* an adapter that accepts it and stands before every other one that does.
C7_FirstAcceptingAdapter ==
    [][log' # log =>
         (Accepting(_adapters, json_data'.v) # {} =>
            /\ validate_format(adapter'.v, json_data'.v)
            /\ \E i \in Accepting(_adapters, json_data'.v) :
                 /\ _adapters[i] = adapter'.v
                 /\ \A j \in 1..(i - 1) : ~validate_format(_adapters[j], json_data'.v))]_vars

\* the Legacy adapter returned from a list of three or more in which it is
\* neither the first nor the last that accepts
C7_Witness ==
    /\ adapter = Some("Legacy")
    /\ Len(log) > 0
    /\ log[Len(log)].msg = get_format_version("Legacy")
    /\ Len(_adapters) > 2
    /\ ~validate_format("Current", json_data.v)
    /\ \E i \in Accepting(_adapters, json_data.v) : _adapters[i] # "Legacy"

\* C8: when no adapter of the list accepts the document, get_adapter returns
\* the Current adapter.
C8_DefaultIsCurrentAdapter ==
    [][log' # log =>
         (Accepting(_adapters, json_data'.v) = {} => adapter' = Some("Current"))]_vars

\* C9: register_adapter puts the adapter at the front and keeps the others in
\* order, and get_adapter returns the latest registered adapter that accepts
\* the document, before any built-in and any adapter registered earlier.
C9_RegisteredAdapterTakesPriority ==
    [][/\ registered' # registered =>
            _adapters' = <<registered'[Len(registered')]>> \o _adapters
       /\ log' # log =>
            LET acc == Accepting(registered, json_data'.v)
            IN  acc # {} =>
                  adapter' = Some(registered[CHOOSE i \in acc : \A j \in acc : j <= i])]_vars

\* two registered adapters and Current all accept; the later registered wins
C9_Witness ==
    /\ Len(registered) = 2
    /\ registered[1] # registered[2]
    /\ _adapters = <<registered[2], registered[1]>> \o BuiltinAdapters
    /\ json_data # None
    /\ Accepting(registered, json_data.v) = {1, 2}
    /\ validate_format("Current", json_data.v)
    /\ adapter = Some(registered[2])
    /\ log # <<>>

\* C10 as stated: with only the built-in adapters, every document without
\* "report_metadata" and "detailed_changes" is rejected by Current and gets
\* the Current adapter; the list stays as it was and a repeated selection
\* returns the same adapter.
C10_LacksCurrentKeysGivesCurrent ==
    [][(log' # log /\ _adapters = BuiltinAdapters /\ LacksCurrentKeys(json_data'.v)) =>
         /\ ~validate_format("Current", json_data'.v)
         /\ adapter' = Some("Current")
         /\ _adapters' = _adapters
         /\ (json_data = json_data' => adapter' = adapter)]_vars

\* C10 as amended: the same for the documents that the Legacy adapter does
\* not accept either (not both "changed_tabs" and "unchanged_tabs").
C10_LacksCurrentAndLegacyKeysGivesCurrent ==
    [][(log' # log /\ _adapters = BuiltinAdapters /\ LacksCurrentKeys(json_data'.v)
          /\ ~validate_format("Legacy", json_data'.v)) =>
         /\ ~validate_format("Current", json_data'.v)
         /\ adapter' = Some("Current")
         /\ _adapters' = _adapters
         /\ (json_data = json_data' => adapter' = adapter)]_vars

\* two selections in a row on such a document, both defaulting to Current
C10_Witness ==
    /\ _adapters = BuiltinAdapters
    /\ Len(log) = 2
    /\ log[1] = log[2]
    /\ log[2].level = "WARNING"
    /\ LacksCurrentKeys(json_data.v)
    /\ HasKey(json_data.v, "changed_tabs")
    /\ adapter = Some("Current")

----------------------------------------------------------------------------
(* Claims about validation, extraction and the summary, checked under       *)
(* SpecPipeline                                                             *)

\* validate_format has been called on the input
Validated == valid # None

\* C11: validate_format of the Current adapter returns true exactly when the
\* document has both top-level keys "report_metadata" and "detailed_changes",
\* whatever other keys it has.
C11_CurrentValidIffBothKeys ==
    (Validated /\ input.type = "dict") =>
        valid.v["Current"] =
            Returned(HasKey(input.d, "report_metadata") /\ HasKey(input.d, "detailed_changes"))

C11_Witness ==
    /\ Validated
    /\ input.type = "dict"
    /\ DOMAIN input.d = {"report_metadata", "detailed_changes", "schema_version"}
    /\ valid.v["Current"] = Returned(TRUE)

\* C12: validate_format of the Current and of the Legacy adapter never raises:
\* on an input that is not a JSON object (null, a number, a list, a string) it
\* returns false.
C12_ValidateNeverRaises ==
    Validated =>
        \A a \in DOMAIN valid.v :
            /\ ~valid.v[a].raised
            /\ input.type # "dict" => valid.v[a] = Returned(FALSE)

\* extract_raw_data has returned the raw tabs of the input
Extracted == pc \in {"start", "done", "summarised"}

\* convert_to_document has built the document from them
Converted == pc \in {"done", "summarised"}

\* the two lists of tab records of the input, absent ones read as empty
InputChanged == DictGet(DictGet(input.d, "detailed_changes", <<>>), "changed_tabs", <<>>)

InputUnchanged == DictGet(DictGet(input.d, "detailed_changes", <<>>), "unchanged_tabs", <<>>)

\* the tab records in the order of the raw tabs taken from them
InputTabs == InputChanged \o InputUnchanged

\* C13: the extraction of the current format returns the raw tabs of
\* "changed_tabs" first and those of "unchanged_tabs" after, each in input
\* order; a raw tab from "unchanged_tabs" has the tag "unchanged" whatever
\* change_type its record has, and after conversion it is in unchanged_tabs.
C13_ChangedThenUnchangedTaggedUnchanged ==
    Extracted =>
        /\ Len(raw_tabs) = Len(InputChanged) + Len(InputUnchanged)
        /\ \A i \in DOMAIN InputChanged :
              raw_tabs[i].name = DictGet(InputChanged[i], "tab_name", "Unknown")
        /\ \A j \in DOMAIN InputUnchanged :
              /\ raw_tabs[Len(InputChanged) + j].name =
                    DictGet(InputUnchanged[j], "tab_name", "Unknown")
              /\ raw_tabs[Len(InputChanged) + j].change_type = "unchanged"
              /\ Converted =>
                    /\ \E k \in DOMAIN document.unchanged_tabs :
                          document.unchanged_tabs[k].oid = Len(InputChanged) + j
                    /\ \A k \in DOMAIN document.changed_tabs :
                          document.changed_tabs[k].oid # Len(InputChanged) + j

C13_Witness ==
    /\ Converted
    /\ Len(InputChanged) = 1
    /\ Len(InputUnchanged) = 1
    /\ raw_tabs[1].name = "Items"
    /\ raw_tabs[2].name = "Customer"
    /\ InputUnchanged[1].change_type = "mixed"
    /\ Len(document.unchanged_tabs) = 1

\* a candidate key with a value that is not empty
Usable(data, key) == key \in DOMAIN data /\ data[key] \notin {JStr(""), JNull}

\* the text under the first usable key of a priority list, "" without one
FirstUsable(data, keys) ==
    IF \E i \in DOMAIN keys : Usable(data, keys[i])
    THEN data[keys[CHOOSE i \in DOMAIN keys :
                     /\ Usable(data, keys[i])
                     /\ \A j \in 1..(i - 1) : ~Usable(data, keys[j])]].s
    ELSE ""

\* the raw mapping has its four fields from the record's mapping_fields
ResolvedFrom(record, raw) ==
    LET data == DictGet(record, "mapping_fields", <<>>)
    IN  /\ raw.source_field = FirstUsable(data, <<"Source Field", "source_field">>)
        /\ raw.target_field = FirstUsable(data, <<"Target Field", "target_field">>)
        /\ raw.canonical_name =
              Some(FirstUsable(data, <<"Source Canonical Name", "Target Canonical Name",
                                       "canonical_name">>))
        /\ raw.sample_data =
              Some(FirstUsable(data, <<"source_sample_data", "target_sample_data",
                                       "sample_data">>))

\* the mapping records of a list of a tab record, absent ones read as empty
InputMappings(tab, list) == DictGet(DictGet(tab, "mappings", <<>>), list, <<>>)

InputFieldChanges(record) == DictGet(record, "field_changes", <<>>)

\* the raw mapping has its diff data from the record's field_changes
DecomposedFrom(record, raw) ==
    LET changes == InputFieldChanges(record)
    IN  /\ raw.modified_fields = Some([j \in DOMAIN changes |-> changes[j][1]])
        /\ \A j \in DOMAIN changes :
              IF changes[j][2].type = "dict"
              THEN /\ OHas(raw.original_values.v, changes[j][1])
                   /\ OGet(raw.original_values.v, changes[j][1]) =
                         DictGet(changes[j][2].d, "old_value", JNull)
                   /\ OHas(raw.new_values.v, changes[j][1])
                   /\ OGet(raw.new_values.v, changes[j][1]) =
                         DictGet(changes[j][2].d, "new_value", JNull)
              ELSE /\ ~OHas(raw.original_values.v, changes[j][1])
                   /\ OHas(raw.new_values.v, changes[j][1])
                   /\ OGet(raw.new_values.v, changes[j][1]) = changes[j][2]

\* C15: for every modified mapping record, modified_fields is the list of the
\* keys of field_changes in the order of the dict; an entry that is an
\* {old_value, new_value} pair gives original_values[field] its old value and
\* new_values[field] its new value; an entry that is a bare scalar gives
\* new_values[field] the scalar and original_values no entry.
C15_FieldChangesDecomposed ==
    Extracted =>
        \A i \in DOMAIN InputTabs :
            \A k \in DOMAIN InputMappings(InputTabs[i], "modified_mappings") :
                DecomposedFrom(InputMappings(InputTabs[i], "modified_mappings")[k],
                               raw_tabs[i].modified_mappings.v[k])

C15_Witness ==
    /\ Extracted
    /\ Len(InputTabs) = 1
    /\ \E k \in DOMAIN InputMappings(InputTabs[1], "modified_mappings") :
          /\ raw_tabs[1].modified_mappings.v[k].modified_fields =
                Some(<<"Target Field", "Source Field">>)
          /\ raw_tabs[1].modified_mappings.v[k].original_values =
                Some(<< <<"Target Field", JStr("OLD_ID")>> >>)
          /\ raw_tabs[1].modified_mappings.v[k].new_values =
                Some(<< <<"Target Field", JStr("ID")>>, <<"Source Field", JStr("CUST_ID")>> >>)

\* the field_changes dict of the example
SampleDataChange == << <<"sample_data", ChangePair(JStr("A"), JStr("B"))>> >>

\* the tab of the document built from the i-th raw tab
TabOf(i) == DocTabs[CHOOSE n \in DOMAIN DocTabs : DocTabs[n].oid = i]

\* C16: a modified mapping whose field_changes is
\* {"sample_data": {"old_value": "A", "new_value": "B"}} becomes a Mapping with
\* modified_fields = ["sample_data"], original_values["sample_data"] = "A",
\* new_values["sample_data"] = "B" and sample_data = "B".
C16_SampleDataPairSetsSampleData ==
    Converted =>
        \A i \in DOMAIN InputTabs :
            \A k \in DOMAIN InputMappings(InputTabs[i], "modified_mappings") :
                InputFieldChanges(InputMappings(InputTabs[i], "modified_mappings")[k])
                        = SampleDataChange =>
                    /\ TabOf(i).modified_mappings[k].modified_fields = <<"sample_data">>
                    /\ TabOf(i).modified_mappings[k].original_values =
                          << <<"sample_data", JStr("A")>> >>
                    /\ TabOf(i).modified_mappings[k].new_values =
                          << <<"sample_data", JStr("B")>> >>
                    /\ TabOf(i).modified_mappings[k].sample_data = Some("B")

\* the raw mapping of a record that lacks "mapping_fields", or the candidate
\* keys of the source or of the target field, has "" for what is missing
MissingFieldsEmpty(record, raw) ==
    LET data == DictGet(record, "mapping_fields", <<>>)
    IN  /\ DOMAIN data \cap {"Source Field", "source_field"} = {} => raw.source_field = ""
        /\ DOMAIN data \cap {"Target Field", "target_field"} = {} => raw.target_field = ""

\* extraction of a report returns, whatever keys are absent: an absent list
\* is read as empty, a tab record without "tab_name" has the name
\* missing_name, a mapping record without a source or target field has ""
AbsentKeysDefaulted(missing_name) ==
    /\ input.type = "dict" => pc # "failed"
    /\ Extracted =>
          /\ Len(raw_tabs) = Len(InputTabs)
          /\ \A i \in DOMAIN InputTabs :
                /\ "tab_name" \notin DOMAIN InputTabs[i] => raw_tabs[i].name = missing_name
                /\ Len(raw_tabs[i].added_mappings.v) =
                      Len(InputMappings(InputTabs[i], "added_mappings"))
                /\ Len(raw_tabs[i].deleted_mappings.v) =
                      Len(InputMappings(InputTabs[i], "deleted_mappings"))
                /\ Len(raw_tabs[i].modified_mappings.v) =
                      Len(InputMappings(InputTabs[i], "modified_mappings"))
                /\ \A k \in DOMAIN InputMappings(InputTabs[i], "added_mappings") :
                      MissingFieldsEmpty(InputMappings(InputTabs[i], "added_mappings")[k],
                                         raw_tabs[i].added_mappings.v[k])
                /\ \A k \in DOMAIN InputMappings(InputTabs[i], "deleted_mappings") :
                      MissingFieldsEmpty(InputMappings(InputTabs[i], "deleted_mappings")[k],
                                         raw_tabs[i].deleted_mappings.v[k])
                /\ \A k \in DOMAIN InputMappings(InputTabs[i], "modified_mappings") :
                      /\ MissingFieldsEmpty(InputMappings(InputTabs[i], "modified_mappings")[k],
                                            raw_tabs[i].modified_mappings.v[k])
                      /\ "field_changes" \notin
                            DOMAIN InputMappings(InputTabs[i], "modified_mappings")[k] =>
                            /\ raw_tabs[i].modified_mappings.v[k].modified_fields = Some(<<>>)
                            /\ raw_tabs[i].modified_mappings.v[k].original_values = Some(<<>>)
                            /\ raw_tabs[i].modified_mappings.v[k].new_values = Some(<<>>)

Summarised == pc = "summarised"

\* the number of changed tabs of the document with a category
ChangedTabsOf(category) ==
    Cardinality({k \in DOMAIN document.changed_tabs :
                   TabChangeCategory[document.changed_tabs[k].change_category] = category})

\* the input of the example: changed tab "Customer", mixed, with one added
\* and one deleted mapping, and unchanged tab "Orders"
ExampleInput ==
    /\ input.type = "dict"
    /\ Len(InputChanged) = 1
    /\ Len(InputUnchanged) = 1
    /\ DictGet(InputChanged[1], "tab_name", "") = "Customer"
    /\ DictGet(InputChanged[1], "change_type", "") = "mixed"
    /\ Len(InputMappings(InputChanged[1], "added_mappings")) = 1
    /\ Len(InputMappings(InputChanged[1], "deleted_mappings")) = 1
    /\ Len(InputMappings(InputChanged[1], "modified_mappings")) = 0
    /\ DictGet(InputUnchanged[1], "tab_name", "") = "Orders"

\* C20: get_summary agrees with the stored totals and lists of the document:
\* total_tabs, the lengths of changed_tabs and unchanged_tabs, total_changes,
\* and per category additions_only, deletions_only, modifications_only and
\* mixed the number of changed tabs with it; the example input gives
\* total_tabs=2, changed_tabs=1, unchanged_tabs=1, total_changes=2, mixed=1.
C20_SummaryAgreesWithDocument ==
    Summarised =>
        /\ summary.v.total_tabs = document.total_tabs
        /\ summary.v.changed_tabs = Len(document.changed_tabs)
        /\ summary.v.unchanged_tabs = Len(document.unchanged_tabs)
        /\ summary.v.total_changes = document.total_changes
        /\ DOMAIN summary.v.tabs_by_change_type =
              {"additions_only", "deletions_only", "modifications_only", "mixed"}
        /\ \A c \in DOMAIN summary.v.tabs_by_change_type :
              summary.v.tabs_by_change_type[c] = ChangedTabsOf(c)
        /\ ExampleInput =>
              /\ summary.v.total_tabs = 2
              /\ summary.v.changed_tabs = 1
              /\ summary.v.unchanged_tabs = 1
              /\ summary.v.total_changes = 2
              /\ summary.v.tabs_by_change_type["mixed"] = 1

C20_Witness ==
    /\ Summarised
    /\ ExampleInput
    /\ summary.v.total_changes = 2
    /\ summary.v.tabs_by_change_type["mixed"] = 1

\* a record of "changed_tabs" without a tag of a change: it has no
\* "change_type", or the change_type "unchanged"
Untagged(record) == "change_type" \notin DOMAIN record \/ record.change_type = "unchanged"

\* the number of added, deleted and modified mapping records of a tab record
InputChangeCount(record) ==
    Len(InputMappings(record, "added_mappings"))
      + Len(InputMappings(record, "deleted_mappings"))
      + Len(InputMappings(record, "modified_mappings"))

\* C21: extraction of the current format and then conversion: a record of
\* "changed_tabs" that has no "change_type", or the change_type "unchanged",
\* is tagged "unchanged" and its tab is in unchanged_tabs, so its mappings do
\* not count in total_changes; changed_tabs holds at most as many tabs as the
\* input's "changed_tabs" has records.
C21_UntaggedChangedTabIsUnchanged ==
    Converted =>
        /\ \A i \in DOMAIN InputChanged :
              Untagged(InputChanged[i]) =>
                  /\ raw_tabs[i].change_type = "unchanged"
                  /\ Holding(document.unchanged_tabs, i) # {}
                  /\ Holding(document.changed_tabs, i) = {}
        /\ document.total_changes =
              SumSeq([i \in DOMAIN InputChanged |->
                        IF Untagged(InputChanged[i]) THEN 0
                        ELSE InputChangeCount(InputChanged[i])])
        /\ Len(document.changed_tabs) =
              Cardinality({i \in DOMAIN InputChanged : ~Untagged(InputChanged[i])})
        /\ Len(document.changed_tabs) <= Len(InputChanged)

C21_Witness ==
    /\ Converted
    /\ Len(InputChanged) = 2
    /\ "change_type" \notin DOMAIN InputChanged[1]
    /\ InputChangeCount(InputChanged[1]) = 1
    /\ ~Untagged(InputChanged[2])
    /\ InputChangeCount(InputChanged[2]) = 2
    /\ Len(document.changed_tabs) = 1
    /\ Len(document.unchanged_tabs) = 1
    /\ document.total_changes = 2
    /\ document.total_mappings = 3

----------------------------------------------------------------------------
(* Claims about the legacy adapter, checked under SpecLegacy *)

\* the legacy adapter accepts the input and the current adapter does not, and
\* "changed_tabs" is a dict of tab records by name
LegacyAccepted ==
    /\ Validated
    /\ valid.v["Legacy"] = Returned(TRUE)
    /\ valid.v["Current"] = Returned(FALSE)
    /\ input.d["changed_tabs"].type = "dict"

\* the <<name, record>> entries of "changed_tabs"
LegacyEntries == input.d["changed_tabs"].d

\* one raw tab per entry of "changed_tabs", in order, named by the entry's
\* key, tagged by the record's "type" or "unknown", without mapping lists
LegacyRawTabs ==
    /\ pc # "failed"
    /\ Extracted =>
          /\ Len(raw_tabs) = Len(LegacyEntries)
          /\ \A i \in DOMAIN LegacyEntries :
                /\ raw_tabs[i].name = LegacyEntries[i][1]
                /\ raw_tabs[i].change_type =
                      IF "type" \in DOMAIN LegacyEntries[i][2]
                      THEN LegacyEntries[i][2].type ELSE "unknown"
                /\ raw_tabs[i].added_mappings = None
                /\ raw_tabs[i].deleted_mappings = None
                /\ raw_tabs[i].modified_mappings = None
                /\ raw_tabs[i].unchanged_mappings = None

\* the tab of an entry without "type" is in changed_tabs with the category
\* unchanged, and the document has no mappings and no changes
LegacyDocument ==
    Converted =>
        /\ \A i \in DOMAIN LegacyEntries :
              "type" \notin DOMAIN LegacyEntries[i][2] =>
                  \E k \in Holding(document.changed_tabs, i) :
                      document.changed_tabs[k].change_category = "UNCHANGED"
        /\ document.total_tabs = Len(LegacyEntries)
        /\ document.total_mappings = 0
        /\ document.total_changes = 0

\* C23 as stated: for a document the legacy adapter accepts, extraction gives
\* one raw tab without mappings per entry of "changed_tabs" and ignores
\* "unchanged_tabs"; a record without "type" is tagged "unknown" and its tab
\* is in changed_tabs with the category unchanged; the document has
\* total_mappings = 0, total_changes = 0 and an empty unchanged_tabs.
C23_LegacyUnchangedTabsEmpty ==
    LegacyAccepted =>
        /\ LegacyRawTabs
        /\ LegacyDocument
        /\ Converted => document.unchanged_tabs = <<>>

\* C23, amended: as above, but unchanged_tabs holds the tabs of the entries
\* of "changed_tabs" whose "type" is "unchanged", and is empty only without
\* such an entry.
C23_LegacyUnchangedTabsByType ==
    LegacyAccepted =>
        /\ LegacyRawTabs
        /\ LegacyDocument
        /\ Converted =>
              /\ \A i \in DOMAIN LegacyEntries :
                    Holding(document.unchanged_tabs, i) # {} <=>
                        DictGet(LegacyEntries[i][2], "type", "unknown") = "unchanged"
              /\ Len(document.unchanged_tabs) =
                    Cardinality({i \in DOMAIN LegacyEntries :
                                   DictGet(LegacyEntries[i][2], "type", "unknown") = "unchanged"})

C23_Witness ==
    /\ LegacyAccepted
    /\ Converted
    /\ input.d["unchanged_tabs"].d # <<>>
    /\ Len(LegacyEntries) = 2
    /\ LegacyEntries[1] = <<"Customer", <<>> >>
    /\ LegacyEntries[2] = <<"Orders", [type |-> "unchanged"]>>
    /\ raw_tabs[1].change_type = "unknown"
    /\ Len(document.changed_tabs) = 1
    /\ document.changed_tabs[1].change_category = "UNCHANGED"
    /\ Len(document.unchanged_tabs) = 1
    /\ document.unchanged_tabs[1].name = "Orders"
    /\ document.total_mappings = 0

============================================================================
